---- MODULE Spec2Model ----
(***************************************************************************)
(* State-machine model of MyInMemoryFS (src/src/myinmemoryfs.cpp): the     *)
(* in-memory file table `files`, the static counter `openFilesCount`, and  *)
(* one action per FUSE handler.  Every action records the call it served   *)
(* (`call`) and what the caller observed (`result`).                       *)
(***************************************************************************)
EXTENDS Integers, Sequences, FiniteSets

\* `threads` is used only by the concurrent specification SpecConc: the
\* position of each FUSE worker thread inside fuseOpen / fuseRelease.
VARIABLES files, openFilesCount, call, result, threads

vars == <<files, openFilesCount, call, result, threads>>

(***************************************************************************)
(* Build-time limits (myfs-structs.h, scaled down) and errno values.       *)
(***************************************************************************)
NAME_LENGTH == 2
NUM_DIR_ENTRIES == 3
NUM_OPEN_FILES == 2

ENOENT == 2
EEXIST == 17
EMFILE == 24
ENOSPC == 28
ENAMETOOLONG == 36

\* Model bounds: longest file content, and the caller's request sizes.
MaxSize == 2

\* Width of size_t / uid_t arithmetic (2^64 and 2^32 in the build, scaled).
SIZE_MODULUS == 2^20
ID_MODULUS == 2^10

Bytes == {0, 1}

\* Paths handed in by the FUSE layer: "/" followed by the flat file name.
RootPath == <<"/">>
Paths == { <<"/", "a">>, <<"/", "b">>, <<"/", "c", "c">>, <<"/", "d", "d", "d">> }

\* Permission bits passed to mknod / chmod: 0644 and 0600.
Modes == {420, 384}

\* uid / gid arguments as the caller writes them; -1 means "do not change".
IdArgs == {-1, 1}

Min(a, b) == IF a < b THEN a ELSE b
Max(a, b) == IF a > b THEN a ELSE b

SeqsOfLen(S, n) == [1..n -> S]
SeqsUpTo(S, n) == UNION { SeqsOfLen(S, k) : k \in 0..n }

(***************************************************************************)
(* std::unordered_map<std::string, MyFsFileInfo> operations.               *)
(***************************************************************************)
EmptyMap == [p \in {} |-> 0]
Contains(f, p) == p \in DOMAIN f
Erase(f, p) == [q \in DOMAIN f \ {p} |-> f[q]]
Assign(f, p, rec) == [q \in DOMAIN f \cup {p} |-> IF q = p THEN rec ELSE f[q]]
MapSize(f) == Cardinality(DOMAIN f)

\* strlen(path + 1) and the string strcpy copies from path + 1.
NameOf(path) == Tail(path)
NameLen(path) == Len(path) - 1

\* The conversion of an int argument to the unsigned uid_t / gid_t.
ToId(x) == x % ID_MODULUS

NoCall == [op |-> "none"]
Returned(r) == [kind |-> "returned", ret |-> r]

TypeOK ==
    /\ DOMAIN files \subseteq Paths
    /\ openFilesCount \in Nat

\* Worker threads of a multithreaded mount, and the width of the unsigned
\* counter (2^32 in the build, scaled).
NumThreads == 2
Threads == 1..NumThreads
UINT_MODULUS == 2^3
Idle == [pc |-> "idle"]

Init ==
    /\ files = EmptyMap
    /\ openFilesCount = 0
    /\ call = NoCall
    /\ result = Returned(0)
    /\ threads = [t \in Threads |-> Idle]

(***************************************************************************)
(* fuseMknod                                                               *)
(***************************************************************************)
NameTooLong(path) == NameLen(path) > NAME_LENGTH
\* Variant: the capacity test off by one (> for >=).
StoreFull_OffByOne(f) == MapSize(f) > NUM_DIR_ENTRIES
StoreFull(f) == MapSize(f) >= NUM_DIR_ENTRIES

NewFileInfo(path, mode) ==
    [name |-> NameOf(path), permissions |-> mode, owner |-> 0, group |-> 0,
     size |-> 0, data |-> <<>>]

\* Variant: the capacity test is made before the existence test.
MknodRet_SpaceFirst(f, path) ==
    IF NameTooLong(path) THEN -ENAMETOOLONG
    ELSE IF StoreFull(f) THEN -ENOSPC
    ELSE IF Contains(f, path) THEN -EEXIST
    ELSE 0

MknodRet(f, path) ==
    IF NameTooLong(path) THEN -ENAMETOOLONG
    ELSE IF Contains(f, path) THEN -EEXIST
    ELSE IF StoreFull(f) THEN -ENOSPC
    ELSE 0

fuseMknod(path, mode) ==
    /\ call' = [op |-> "mknod", path |-> path, mode |-> mode]
    /\ result' = Returned(MknodRet(files, path))
    /\ files' = IF MknodRet(files, path) = 0
                THEN Assign(files, path, NewFileInfo(path, mode))
                ELSE files
    /\ UNCHANGED <<openFilesCount, threads>>

(***************************************************************************)
(* fuseUnlink                                                              *)
(***************************************************************************)
fuseUnlink(path) ==
    /\ call' = [op |-> "unlink", path |-> path]
    /\ IF ~Contains(files, path)
       THEN /\ result' = Returned(-ENOENT)
            /\ UNCHANGED files
       ELSE /\ files' = Erase(files, path)
            /\ result' = Returned(0)
    /\ UNCHANGED <<openFilesCount, threads>>

(***************************************************************************)
(* fuseRename.  files.at(path) throws std::out_of_range when path is not   *)
(* in the map; the erase of newpath has already happened by then.          *)
(* `replaced` is what the log shows: "deleting file on new path."          *)
(***************************************************************************)
RenameTargetErased(f, newpath) ==
    IF Contains(f, newpath) THEN Erase(f, newpath) ELSE f

\* Variant: the record stored under newpath is a fresh one, not the source's.
Relabel_DropsContent(info, newpath) ==
    [info EXCEPT !.name = NameOf(newpath), !.size = 0, !.data = <<>>]

\* Variant: the name field is not rewritten (the strcpy is missing).
Relabel_KeepsName(info, newpath) == info

Relabel(info, newpath) == [info EXCEPT !.name = NameOf(newpath)]

fuseRename(path, newpath) ==
    LET erased == RenameTargetErased(files, newpath) IN
    /\ call' = [op |-> "rename", path |-> path, newpath |-> newpath]
    /\ IF ~Contains(erased, path)
       THEN /\ files' = erased
            /\ result' = [kind |-> "out_of_range", ret |-> 0]
       ELSE /\ files' = Erase(Assign(erased, newpath, Relabel(erased[path], newpath)), path)
            /\ result' = [kind |-> "returned", ret |-> 0,
                          replaced |-> Contains(files, newpath)]
    /\ UNCHANGED <<openFilesCount, threads>>

(***************************************************************************)
(* fuseGetattr                                                             *)
(***************************************************************************)
S_IFDIR == "S_IFDIR"
S_IFREG == "S_IFREG"
DirPerm == 493   \* 0755
RegPerm == 420   \* 0644

\* Variant: a regular file is reported with its stored permissions.
GetattrResult_StoredPerm(f, path) ==
    IF path = RootPath
    THEN [kind |-> "returned", ret |-> 0, st_type |-> S_IFDIR, st_perm |-> DirPerm,
          st_nlink |-> 2]
    ELSE IF Contains(f, path)
    THEN [kind |-> "returned", ret |-> 0, st_type |-> S_IFREG,
          st_perm |-> f[path].permissions, st_nlink |-> 1, st_size |-> f[path].size]
    ELSE Returned(-ENOENT)

GetattrResult(f, path) ==
    IF path = RootPath
    THEN [kind |-> "returned", ret |-> 0, st_type |-> S_IFDIR, st_perm |-> DirPerm,
          st_nlink |-> 2]
    ELSE IF Contains(f, path)
    THEN [kind |-> "returned", ret |-> 0, st_type |-> S_IFREG, st_perm |-> RegPerm,
          st_nlink |-> 1, st_size |-> f[path].size]
    ELSE Returned(-ENOENT)

fuseGetattr(path) ==
    /\ call' = [op |-> "getattr", path |-> path]
    /\ result' = GetattrResult(files, path)
    /\ UNCHANGED <<files, openFilesCount, threads>>

(***************************************************************************)
(* fuseChmod, fuseChown                                                    *)
(***************************************************************************)
fuseChmod(path, mode) ==
    /\ call' = [op |-> "chmod", path |-> path, mode |-> mode]
    /\ IF Contains(files, path)
       THEN /\ files' = [files EXCEPT ![path].permissions = mode]
            /\ result' = Returned(0)
       ELSE /\ result' = Returned(-ENOENT)
            /\ UNCHANGED files
    /\ UNCHANGED <<openFilesCount, threads>>

\* uid and gid are unsigned in the handler: the tests `uid >= 0`, `gid >= 0`
\* are made on the converted values.
ChownApplied(info, uidArg, gidArg) ==
    LET uid == ToId(uidArg)
        gid == ToId(gidArg)
        withOwner == IF uid >= 0 THEN [info EXCEPT !.owner = uid] ELSE info
    IN  IF gid >= 0 THEN [withOwner EXCEPT !.group = gid] ELSE withOwner

fuseChown(path, uidArg, gidArg) ==
    /\ call' = [op |-> "chown", path |-> path, uid |-> uidArg, gid |-> gidArg]
    /\ IF ~Contains(files, path)
       THEN /\ result' = Returned(-ENOENT)
            /\ UNCHANGED files
       ELSE /\ files' = [files EXCEPT ![path] = ChownApplied(@, uidArg, gidArg)]
            /\ result' = Returned(0)
    /\ UNCHANGED <<openFilesCount, threads>>

(***************************************************************************)
(* fuseOpen, fuseRelease, fuseInit                                         *)
(***************************************************************************)
\* Variants: the limit test one late (> for >=), and one early.
OpenLimitReached_Late(n) == n > NUM_OPEN_FILES
OpenLimitReached_Early(n) == n >= NUM_OPEN_FILES - 1
OpenLimitReached(n) == n >= NUM_OPEN_FILES

\* Variant: the counter is incremented before the limit is tested, and the
\* failing branch does not take the increment back.
fuseOpen_CountsFirst(path) ==
    /\ call' = [op |-> "open", path |-> path]
    /\ IF ~Contains(files, path)
       THEN /\ result' = Returned(-ENOENT)
            /\ UNCHANGED openFilesCount
       ELSE /\ openFilesCount' = openFilesCount + 1
            /\ result' = IF openFilesCount + 1 > NUM_OPEN_FILES
                         THEN Returned(-EMFILE) ELSE Returned(0)
    /\ UNCHANGED <<files, threads>>

fuseOpen(path) ==
    /\ call' = [op |-> "open", path |-> path]
    /\ IF ~Contains(files, path)
       THEN /\ result' = Returned(-ENOENT)
            /\ UNCHANGED openFilesCount
       ELSE IF OpenLimitReached(openFilesCount)
       THEN /\ result' = Returned(-EMFILE)
            /\ UNCHANGED openFilesCount
       ELSE /\ openFilesCount' = openFilesCount + 1
            /\ result' = Returned(0)
    /\ UNCHANGED <<files, threads>>

\* Variant: the underflow guard never triggers.
NoOpenFiles_Never(n) == FALSE
NoOpenFiles(n) == n = 0

fuseRelease(path) ==
    /\ call' = [op |-> "release", path |-> path]
    /\ IF ~Contains(files, path)
       THEN /\ result' = Returned(-ENOENT)
            /\ UNCHANGED openFilesCount
       ELSE IF NoOpenFiles(openFilesCount)
       THEN /\ result' = Returned(-ENOENT)
            /\ UNCHANGED openFilesCount
       ELSE /\ openFilesCount' = openFilesCount - 1
            /\ result' = Returned(0)
    /\ UNCHANGED <<files, threads>>

fuseInit ==
    /\ call' = [op |-> "init"]
    /\ openFilesCount' = 0
    /\ result' = Returned(0)
    /\ UNCHANGED <<files, threads>>

(***************************************************************************)
(* fuseRead.  `files[path].size - offset` is computed in size_t; when the  *)
(* copy leaves the buffer the behaviour is undefined: the bytes delivered  *)
(* are arbitrary, or the access faults.                                    *)
(***************************************************************************)
BytesToCopy(size, storedSize, offset) ==
    Min(size, (storedSize - offset) % SIZE_MODULUS)

\* Positions of the content buffer (0-based) that memmove reads.
ReadAccess(size, storedSize, offset) ==
    offset .. (offset + BytesToCopy(size, storedSize, offset) - 1)

ReadOutcomes(f, path, size, offset) ==
    IF ~Contains(f, path) THEN { Returned(-ENOENT) }
    ELSE IF f[path].size = 0
    THEN { [kind |-> "returned", ret |-> 0, buf |-> <<>>, accessed |-> {}] }
    ELSE LET n == BytesToCopy(size, f[path].size, offset)
             acc == ReadAccess(size, f[path].size, offset)
         IN  IF acc \subseteq 0 .. (f[path].size - 1)
             THEN { [kind |-> "returned", ret |-> n,
                     buf |-> SubSeq(f[path].data, offset + 1, offset + n),
                     accessed |-> acc] }
             ELSE { [kind |-> "returned", ret |-> n, buf |-> b, accessed |-> acc] :
                        b \in SeqsOfLen(Bytes, n) }
                  \cup { [kind |-> "fault", ret |-> 0, accessed |-> acc] }

fuseRead(path, size, offset) ==
    /\ call' = [op |-> "read", path |-> path, size |-> size, offset |-> offset]
    /\ result' \in ReadOutcomes(files, path, size, offset)
    /\ UNCHANGED <<files, openFilesCount, threads>>

(***************************************************************************)
(* fuseWrite.  realloc leaves the bytes it adds uninitialised: those       *)
(* between the old end and offset keep an arbitrary value.                 *)
(***************************************************************************)
\* Variant: the size is set to offset + size on every write.
WrittenSize_Exact(storedSize, size, offset) == offset + size

WrittenSize(storedSize, size, offset) ==
    IF storedSize < offset + size THEN offset + size ELSE storedSize

\* Variant: the copy goes to the start of the buffer instead of data + offset.
WrittenData_IgnoresOffset(data, gap, buf, offset) ==
    LET grown == data \o gap
        total == Max(Len(grown), offset + Len(buf))
    IN  [i \in 1..total |->
            IF i <= Len(buf) THEN buf[i]
            ELSE IF i <= Len(grown) THEN grown[i] ELSE 0]

WrittenData(data, gap, buf, offset) ==
    LET grown == data \o gap
        total == Max(Len(grown), offset + Len(buf))
    IN  [i \in 1..total |->
            IF i - 1 >= offset /\ i - 1 < offset + Len(buf)
            THEN buf[i - offset] ELSE grown[i]]

fuseWrite(path, buf, offset) ==
    /\ call' = [op |-> "write", path |-> path, buf |-> buf, size |-> Len(buf),
                offset |-> offset]
    /\ IF ~Contains(files, path)
       THEN /\ result' = Returned(-ENOENT)
            /\ UNCHANGED files
       ELSE \E gap \in SeqsOfLen(Bytes, Max(0, offset - files[path].size)) :
            /\ files' = [files EXCEPT
                           ![path].size = WrittenSize(@, Len(buf), offset),
                           ![path].data = WrittenData(@, gap, buf, offset)]
            /\ result' = Returned(Len(buf))
    /\ UNCHANGED <<openFilesCount, threads>>

(***************************************************************************)
(* fuseTruncate, both overloads: realloc to newSize, then size = newSize.  *)
(***************************************************************************)
\* Variant: a fresh zeroed buffer is allocated; the old bytes are not copied.
Realloc_FreshBuffer(data, newSize, fill) == [i \in 1..newSize |-> 0]

Realloc(data, newSize, fill) ==
    IF newSize <= Len(data) THEN SubSeq(data, 1, newSize) ELSE data \o fill

\* Variant: the buffer is only ever grown; a smaller newSize is ignored.
TruncatedInfo_NeverShrinks(info, newSize, fill) ==
    IF newSize < info.size THEN info
    ELSE [info EXCEPT !.data = Realloc(@, newSize, fill), !.size = newSize]

TruncatedInfo(info, newSize, fill) ==
    [info EXCEPT !.data = Realloc(@, newSize, fill), !.size = newSize]

\* The bytes realloc adds when it grows the buffer: uninitialised.
ReallocFills(info, newSize) == SeqsOfLen(Bytes, Max(0, newSize - Len(info.data)))

fuseTruncate(path, newSize) ==
    /\ call' = [op |-> "truncate", path |-> path, newSize |-> newSize]
    /\ IF ~Contains(files, path)
       THEN /\ result' = Returned(-ENOENT)
            /\ UNCHANGED files
       ELSE \E fill \in ReallocFills(files[path], newSize) :
            /\ files' = [files EXCEPT ![path] = TruncatedInfo(@, newSize, fill)]
            /\ result' = Returned(0)
    /\ UNCHANGED <<openFilesCount, threads>>

fuseTruncateOpen(path, newSize) ==
    /\ call' = [op |-> "truncate_open", path |-> path, newSize |-> newSize]
    /\ IF ~Contains(files, path)
       THEN /\ result' = Returned(-ENOENT)
            /\ UNCHANGED files
       ELSE \E fill \in ReallocFills(files[path], newSize) :
            /\ files' = [files EXCEPT ![path] = TruncatedInfo(@, newSize, fill)]
            /\ result' = Returned(0)
    /\ UNCHANGED <<openFilesCount, threads>>

(***************************************************************************)
(* fuseReaddir: ".", "..", then file.name of every entry in the map's      *)
(* (unspecified) iteration order.                                          *)
(***************************************************************************)
IterationOrders(f) ==
    { o \in SeqsOfLen(DOMAIN f, MapSize(f)) : \A i, j \in 1..MapSize(f) : o[i] = o[j] => i = j }

ReaddirEntries(f, path, order) ==
    <<<<".">>, <<".", ".">>>> \o
    (IF path = RootPath THEN [i \in 1..Len(order) |-> f[order[i]].name] ELSE <<>>)

fuseReaddir(path) ==
    /\ call' = [op |-> "readdir", path |-> path]
    /\ \E order \in IterationOrders(files) :
          result' = [kind |-> "returned", ret |-> 0,
                     entries |-> ReaddirEntries(files, path, order)]
    /\ UNCHANGED <<files, openFilesCount, threads>>

(***************************************************************************)
(* deleteAllFiles (run by the destructor).  The range-for keeps an         *)
(* iterator to the element that fuseUnlink erases; advancing it afterwards *)
(* is undefined: the loop may go on to the remaining entries, stop early,  *)
(* or fault, after any number (at least one) of deletions.                 *)
(***************************************************************************)
ErasedPrefix(f, order, k) ==
    [q \in DOMAIN f \ { order[i] : i \in 1..k } |-> f[q]]

deleteAllFiles ==
    /\ call' = [op |-> "deleteAllFiles"]
    /\ IF files = EmptyMap
       THEN /\ result' = [kind |-> "returned", ret |-> 0, deleted |-> 0]
            /\ UNCHANGED files
       ELSE \E order \in IterationOrders(files), k \in 1..MapSize(files),
               kind \in {"returned", "fault"} :
            /\ files' = ErasedPrefix(files, order, k)
            /\ result' = [kind |-> kind, ret |-> 0, deleted |-> k]
    /\ UNCHANGED <<openFilesCount, threads>>

(***************************************************************************)
(* fuseOpen and fuseRelease run by concurrent threads.  The handlers take  *)
(* no lock and openFilesCount is a plain static unsigned int: the test of  *)
(* the counter, and the load and the store of `openFilesCount++` / `--`,   *)
(* are separate steps that interleave with those of the other threads.     *)
(***************************************************************************)
Goto(t, pc, path) == [threads EXCEPT ![t] = [pc |-> pc, path |-> path]]
Return(t) == [threads EXCEPT ![t] = Idle]

OpenFind(t, path) ==
    /\ threads[t].pc = "idle"
    /\ IF ~Contains(files, path)
       THEN /\ call' = [op |-> "open", path |-> path, thread |-> t]
            /\ result' = Returned(-ENOENT)
            /\ UNCHANGED threads
       ELSE /\ threads' = Goto(t, "open_check", path)
            /\ UNCHANGED <<call, result>>
    /\ UNCHANGED <<files, openFilesCount>>

OpenCheck(t) ==
    /\ threads[t].pc = "open_check"
    /\ IF OpenLimitReached(openFilesCount)
       THEN /\ call' = [op |-> "open", path |-> threads[t].path, thread |-> t]
            /\ result' = Returned(-EMFILE)
            /\ threads' = Return(t)
       ELSE /\ threads' = Goto(t, "open_load", threads[t].path)
            /\ UNCHANGED <<call, result>>
    /\ UNCHANGED <<files, openFilesCount>>

OpenLoad(t) ==
    /\ threads[t].pc = "open_load"
    /\ threads' = [threads EXCEPT ![t] = [pc |-> "open_store", path |-> @.path,
                                          reg |-> openFilesCount]]
    /\ UNCHANGED <<files, openFilesCount, call, result>>

OpenStore(t) ==
    /\ threads[t].pc = "open_store"
    /\ openFilesCount' = (threads[t].reg + 1) % UINT_MODULUS
    /\ call' = [op |-> "open", path |-> threads[t].path, thread |-> t]
    /\ result' = Returned(0)
    /\ threads' = Return(t)
    /\ UNCHANGED files

ReleaseFind(t, path) ==
    /\ threads[t].pc = "idle"
    /\ IF ~Contains(files, path)
       THEN /\ call' = [op |-> "release", path |-> path, thread |-> t]
            /\ result' = Returned(-ENOENT)
            /\ UNCHANGED threads
       ELSE /\ threads' = Goto(t, "release_check", path)
            /\ UNCHANGED <<call, result>>
    /\ UNCHANGED <<files, openFilesCount>>

ReleaseCheck(t) ==
    /\ threads[t].pc = "release_check"
    /\ IF NoOpenFiles(openFilesCount)
       THEN /\ call' = [op |-> "release", path |-> threads[t].path, thread |-> t]
            /\ result' = Returned(-ENOENT)
            /\ threads' = Return(t)
       ELSE /\ threads' = Goto(t, "release_load", threads[t].path)
            /\ UNCHANGED <<call, result>>
    /\ UNCHANGED <<files, openFilesCount>>

ReleaseLoad(t) ==
    /\ threads[t].pc = "release_load"
    /\ threads' = [threads EXCEPT ![t] = [pc |-> "release_store", path |-> @.path,
                                          reg |-> openFilesCount]]
    /\ UNCHANGED <<files, openFilesCount, call, result>>

ReleaseStore(t) ==
    /\ threads[t].pc = "release_store"
    /\ openFilesCount' = (threads[t].reg - 1) % UINT_MODULUS
    /\ call' = [op |-> "release", path |-> threads[t].path, thread |-> t]
    /\ result' = Returned(0)
    /\ threads' = Return(t)
    /\ UNCHANGED files

(***************************************************************************)
(* The callers.  Every specification runs every handler; they differ in    *)
(* the arguments the callers draw from, so that the state space of each    *)
(* stays small: Spec varies the names, SpecData the contents, requests and *)
(* offsets (its callers open and close only a name that is never created,  *)
(* so the counter stays put), SpecMeta the permissions and the owner /     *)
(* group identifiers.  SpecTeardown adds the destructor's deleteAllFiles   *)
(* to Spec; SpecConc runs fuseOpen / fuseRelease as interleaved threads.   *)
(***************************************************************************)
WriteArgs == { <<b, o>> \in SeqsUpTo(Bytes, MaxSize) \X (0..MaxSize) : o + Len(b) <= MaxSize }

CoreInputs ==
    [paths |-> Paths, openPaths |-> Paths, modes |-> {420}, ids |-> {0},
     writes |-> { <<<<1>>, 0>> }, readSizes |-> {1}, readOffsets |-> {0},
     newSizes |-> {0}]

DataInputs ==
    [paths |-> { <<"/", "a">>, <<"/", "b">> },
     openPaths |-> { <<"/", "c", "c">> }, modes |-> {420}, ids |-> {0},
     writes |-> WriteArgs, readSizes |-> 0..MaxSize, readOffsets |-> 0..(MaxSize + 1),
     newSizes |-> 0..MaxSize]

MetaInputs ==
    [paths |-> { <<"/", "a">>, <<"/", "d", "d", "d">> },
     openPaths |-> { <<"/", "a">>, <<"/", "d", "d", "d">> },
     modes |-> Modes, ids |-> IdArgs,
     writes |-> { <<<<1>>, 0>> }, readSizes |-> {1}, readOffsets |-> {0},
     newSizes |-> {0}]

NextOver(in) ==
    \/ \E p \in in.paths, m \in in.modes : fuseMknod(p, m)
    \/ \E p \in in.paths : fuseUnlink(p)
    \/ \E p \in in.paths, q \in in.paths : fuseRename(p, q)
    \/ \E p \in in.paths \cup {RootPath} : fuseGetattr(p)
    \/ \E p \in in.paths, m \in in.modes : fuseChmod(p, m)
    \/ \E p \in in.paths, u \in in.ids, g \in in.ids : fuseChown(p, u, g)
    \/ \E p \in in.openPaths : fuseOpen(p)
    \/ \E p \in in.openPaths : fuseRelease(p)
    \/ fuseInit
    \/ \E p \in in.paths, n \in in.readSizes, o \in in.readOffsets : fuseRead(p, n, o)
    \/ \E p \in in.paths, a \in in.writes : fuseWrite(p, a[1], a[2])
    \/ \E p \in in.paths, k \in in.newSizes : fuseTruncate(p, k)
    \/ \E p \in in.paths, k \in in.newSizes : fuseTruncateOpen(p, k)
    \/ \E p \in in.paths \cup {RootPath} : fuseReaddir(p)

Next == NextOver(CoreInputs)
NextData == NextOver(DataInputs)
NextMeta == NextOver(MetaInputs)
NextTeardown == NextOver(CoreInputs) \/ deleteAllFiles

\* Concurrent opens and closes of two files, created by sequential calls.
ConcPaths == { <<"/", "a">>, <<"/", "b">> }

NextConc ==
    \/ \E p \in ConcPaths : fuseMknod(p, 420)
    \/ \E t \in Threads, p \in ConcPaths : OpenFind(t, p)
    \/ \E t \in Threads : OpenCheck(t)
    \/ \E t \in Threads : OpenLoad(t)
    \/ \E t \in Threads : OpenStore(t)
    \/ \E t \in Threads, p \in ConcPaths : ReleaseFind(t, p)
    \/ \E t \in Threads : ReleaseCheck(t)
    \/ \E t \in Threads : ReleaseLoad(t)
    \/ \E t \in Threads : ReleaseStore(t)

Spec == Init /\ [][Next]_vars
SpecData == Init /\ [][NextData]_vars
SpecMeta == Init /\ [][NextMeta]_vars
SpecTeardown == Init /\ [][NextTeardown]_vars
SpecConc == Init /\ [][NextConc]_vars

(***************************************************************************)
(* Properties.                                                             *)
(***************************************************************************)
\* C1: after any sequence of calls the store holds at most NUM_DIR_ENTRIES
\* entries.
C1_EntryCountBounded == MapSize(files) <= NUM_DIR_ENTRIES

\* A create was refused with ENOSPC on a store holding exactly the limit.
C1_Witness ==
    /\ call.op = "mknod"
    /\ result.ret = -ENOSPC
    /\ MapSize(files) = NUM_DIR_ENTRIES

\* C2: the open-file counter always satisfies 0 <= counter <= NUM_OPEN_FILES.
C2_CounterInRange == 0 <= openFilesCount /\ openFilesCount <= NUM_OPEN_FILES

\* An open was refused with EMFILE while the counter sat at the limit.
C2_Witness ==
    /\ call.op = "open"
    /\ result.ret = -EMFILE
    /\ openFilesCount = NUM_OPEN_FILES

\* C3: a write of n bytes at offset to an existing file returns n, and a read
\* of n bytes at the same offset right after it returns n bytes equal to the
\* bytes written.
C3_WriteReadRoundTrip ==
    [][ (call'.op = "write" /\ Contains(files, call'.path)) =>
          /\ result' = Returned(call'.size)
          /\ \A r \in ReadOutcomes(files', call'.path, call'.size, call'.offset) :
                /\ r.kind = "returned"
                /\ r.ret = call'.size
                /\ r.buf = call'.buf ]_vars

\* A non-empty write landed past the start of the file.
C3_Witness ==
    /\ call.op = "write"
    /\ call.size >= 1
    /\ call.offset >= 1
    /\ result.ret = call.size

\* C4: a read of an existing file returns at most max(0, storedSize - offset)
\* bytes, touches only positions in [0, storedSize), and returns 0 on an
\* empty file.
C4_ReadWithinBounds ==
    (call.op = "read" /\ Contains(files, call.path)) =>
        LET storedSize == files[call.path].size IN
        /\ result.kind = "returned"
        /\ result.ret >= 0
        /\ result.ret <= Max(0, storedSize - call.offset)
        /\ result.accessed \subseteq 0 .. (storedSize - 1)
        /\ (storedSize = 0 => result.ret = 0)

\* C5: a successful create(name, p) followed by stat(name) reports size 0 and
\* permissions p.
C5_CreateThenStat ==
    [][ (call'.op = "mknod" /\ result'.ret = 0) =>
          LET st == GetattrResult(files', call'.path) IN
          /\ st.ret = 0
          /\ st.st_size = 0
          /\ st.st_perm = call'.mode ]_vars

\* C6: truncate(name, k) of an existing file, through either entry point,
\* succeeds, and stat(name) right after it reports size k.
C6_TruncateThenStat ==
    [][ (call'.op \in {"truncate", "truncate_open"} /\ Contains(files, call'.path)) =>
          /\ result' = Returned(0)
          /\ GetattrResult(files', call'.path).ret = 0
          /\ GetattrResult(files', call'.path).st_size = call'.newSize ]_vars

\* An open-file truncate cut a file down to a size below the largest.
C6_Witness ==
    /\ call.op = "truncate_open"
    /\ call.newSize < MaxSize
    /\ result.ret = 0
    /\ Contains(files, call.path)
    /\ files[call.path].size = call.newSize

\* C7: rename(name, newName) with both present and different succeeds; name
\* is gone, newName holds the source's size and content, the store has one
\* entry fewer, and every other entry is as it was.
C7_RenameOverExisting ==
    [][ ( /\ call'.op = "rename"
          /\ call'.path # call'.newpath
          /\ Contains(files, call'.path)
          /\ Contains(files, call'.newpath) ) =>
          /\ result'.kind = "returned"
          /\ result'.ret = 0
          /\ ~Contains(files', call'.path)
          /\ Contains(files', call'.newpath)
          /\ files'[call'.newpath].size = files[call'.path].size
          /\ files'[call'.newpath].data = files[call'.path].data
          /\ MapSize(files') = MapSize(files) - 1
          /\ \A q \in (DOMAIN files \cup DOMAIN files') \ {call'.path, call'.newpath} :
                Contains(files, q) /\ Contains(files', q) /\ files'[q] = files[q] ]_vars

\* A rename replaced an existing file by a non-empty one while a third file
\* was in the store.
C7_Witness ==
    /\ call.op = "rename"
    /\ result.kind = "returned"
    /\ result.replaced
    /\ MapSize(files) = NUM_DIR_ENTRIES - 1
    /\ Contains(files, call.newpath)
    /\ files[call.newpath].size > 0

\* C8: rename with the source absent fails with ENOENT and leaves the store
\* unchanged.
C8_RenameMissingSource ==
    [][ (call'.op = "rename" /\ ~Contains(files, call'.path)) =>
          /\ result' = Returned(-ENOENT)
          /\ files' = files ]_vars

ErrorReturningOps ==
    {"mknod", "unlink", "open", "release", "read", "write", "truncate",
     "truncate_open", "chmod", "chown"}

\* C9: a create, delete, open, close, read, write, truncate, chmod or chown
\* call that returns an error leaves the store and the counter as they were.
C9_FailedCallChangesNothing ==
    [][ ( /\ call'.op \in ErrorReturningOps
          /\ result'.kind = "returned"
          /\ result'.ret < 0 ) =>
          /\ files' = files
          /\ openFilesCount' = openFilesCount ]_vars

\* An open was refused on a full counter while the store held a file.
C9_Witness ==
    /\ call.op = "open"
    /\ result.ret = -EMFILE
    /\ files # EmptyMap

\* C10: an open of an existing file succeeds and adds one while the counter
\* is below NUM_OPEN_FILES (so NUM_OPEN_FILES opens in a row from 0 succeed);
\* at the limit it fails with EMFILE and keeps the counter; a close at the
\* limit succeeds and takes one off, so the next open succeeds.
C10_OpenUpToLimit ==
    [][ /\ (call'.op = "open" /\ Contains(files, call'.path)) =>
             IF openFilesCount < NUM_OPEN_FILES
             THEN result' = Returned(0) /\ openFilesCount' = openFilesCount + 1
             ELSE result' = Returned(-EMFILE) /\ openFilesCount' = openFilesCount
        /\ (call'.op = "release" /\ Contains(files, call'.path)
              /\ openFilesCount = NUM_OPEN_FILES) =>
             /\ result' = Returned(0)
             /\ openFilesCount' = NUM_OPEN_FILES - 1
             /\ ~OpenLimitReached(openFilesCount') ]_vars

\* The open that brought the counter up to the limit succeeded.
C10_Witness ==
    /\ call.op = "open"
    /\ result.ret = 0
    /\ openFilesCount = NUM_OPEN_FILES

\* C11: bulk teardown of a non-empty store returns and leaves the store
\* empty; a delete in an empty store fails with ENOENT and the store stays
\* empty.
C11_TeardownEmptiesStore ==
    [][ /\ (call'.op = "deleteAllFiles" /\ files # EmptyMap) =>
             /\ result'.kind = "returned"
             /\ files' = EmptyMap
        /\ (call'.op = "unlink" /\ files = EmptyMap) =>
             /\ result' = Returned(-ENOENT)
             /\ files' = EmptyMap ]_vars

\* C12: every file name held in the store has length at most NAME_LENGTH.
C12_StoredNamesShort ==
    \A p \in DOMAIN files :
        NameLen(p) <= NAME_LENGTH /\ Len(files[p].name) <= NAME_LENGTH

\* C13: create reports the first failing precondition in the order name too
\* long, already exists, no space, leaving the store as it was; otherwise it
\* inserts a record of size 0 with no content.
C13_CreateCheckOrder ==
    [][ (call'.op = "mknod") =>
          LET p == call'.path IN
          IF NameLen(p) > NAME_LENGTH
          THEN result' = Returned(-ENAMETOOLONG) /\ files' = files
          ELSE IF p \in DOMAIN files
          THEN result' = Returned(-EEXIST) /\ files' = files
          ELSE IF MapSize(files) = NUM_DIR_ENTRIES
          THEN result' = Returned(-ENOSPC) /\ files' = files
          ELSE /\ result' = Returned(0)
               /\ DOMAIN files' = DOMAIN files \cup {p}
               /\ files'[p].size = 0
               /\ files'[p].data = <<>>
               /\ \A q \in DOMAIN files : files'[q] = files[q] ]_vars

\* A create of a name already present was refused with EEXIST on a full store.
C13_Witness ==
    /\ call.op = "mknod"
    /\ result.ret = -EEXIST
    /\ MapSize(files) = NUM_DIR_ENTRIES

\* C14: chown on an existing file applies uid and gid independently: the
\* "no change" value (-1) for one of them leaves that stored identifier as it
\* was, any other value is stored; permissions, size, content and every
\* other file are never changed.
C14_ChownIndependent ==
    [][ (call'.op = "chown" /\ Contains(files, call'.path)) =>
          LET p == call'.path IN
          /\ result' = Returned(0)
          /\ DOMAIN files' = DOMAIN files
          /\ files'[p].owner = IF call'.uid = -1 THEN files[p].owner ELSE call'.uid
          /\ files'[p].group = IF call'.gid = -1 THEN files[p].group ELSE call'.gid
          /\ files'[p].permissions = files[p].permissions
          /\ files'[p].size = files[p].size
          /\ files'[p].data = files[p].data
          /\ \A q \in DOMAIN files \ {p} : files'[q] = files[q] ]_vars

C17_CloseCountsDown ==
    [][ (call'.op = "release" /\ Contains(files, call'.path)) =>
          /\ files' = files
          /\ IF openFilesCount = 0
             THEN /\ result'.kind = "returned"
                  /\ result'.ret < 0
                  /\ openFilesCount' = 0
             ELSE /\ result' = Returned(0)
                  /\ openFilesCount' = openFilesCount - 1 ]_vars

\* A close of an existing file was refused because nothing was open.
C17_Witness ==
    /\ call.op = "release"
    /\ Contains(files, call.path)
    /\ result.ret < 0
    /\ openFilesCount = 0

\* C18: a write of n bytes at offset to an existing file sets its size to
\* max(oldSize, offset + n), keeps every byte below oldSize that lies outside
\* [offset, offset + n), and changes no other file and not the counter.
C18_WriteFrame ==
    [][ (call'.op = "write" /\ Contains(files, call'.path)) =>
          LET p == call'.path
              off == call'.offset
              n == call'.size
              old == files[p]
              new == files'[p]
          IN  /\ result' = Returned(n)
              /\ DOMAIN files' = DOMAIN files
              /\ new.size = Max(old.size, off + n)
              /\ Len(new.data) = new.size
              /\ \A i \in 0 .. (old.size - 1) :
                    (i < off \/ i >= off + n) => new.data[i + 1] = old.data[i + 1]
              /\ \A q \in DOMAIN files \ {p} : files'[q] = files[q]
              /\ openFilesCount' = openFilesCount ]_vars

\* One byte was written at the start of a file that stays two bytes long,
\* with a second file in the store.
C18_Witness ==
    /\ call.op = "write"
    /\ call.size = 1
    /\ call.offset = 0
    /\ result.ret = 1
    /\ files[call.path].size = 2
    /\ MapSize(files) = 2

\* C19: truncate to k <= size followed by a read of n bytes at offset 0
\* returns min(n, k) bytes, the first min(n, k) bytes of the old content.
C19_ShrinkKeepsPrefix ==
    [][ ( /\ call'.op \in {"truncate", "truncate_open"}
          /\ Contains(files, call'.path)
          /\ call'.newSize <= files[call'.path].size ) =>
          \A n \in 0 .. (MaxSize + 1) :
             \A r \in ReadOutcomes(files', call'.path, n, 0) :
                LET m == IF n < call'.newSize THEN n ELSE call'.newSize IN
                /\ r.kind = "returned"
                /\ r.ret = m
                /\ r.buf = SubSeq(files[call'.path].data, 1, m) ]_vars

\* A truncate left a file with some, but fewer than the most, bytes.
C19_Witness ==
    /\ call.op = "truncate"
    /\ call.newSize >= 1
    /\ call.newSize < MaxSize
    /\ result.ret = 0
    /\ files[call.path].size = call.newSize

\* C20: in every interleaving of concurrent opens and closes the counter
\* stays within 0 .. NUM_OPEN_FILES.
C20_CounterInRangeConcurrent == openFilesCount \in 0..NUM_OPEN_FILES

\* C21: rename(name, name) of an existing file succeeds and leaves the store
\* unchanged: the file is still there under that name with the same size
\* and content.
C21_RenameOntoItself ==
    [][ ( /\ call'.op = "rename"
          /\ call'.path = call'.newpath
          /\ Contains(files, call'.path) ) =>
          /\ result'.kind = "returned"
          /\ result'.ret = 0
          /\ files' = files ]_vars

====
